---- MODULE Spec2Model ----
(***************************************************************************)
(* dustat: the declaration/usage registry (two-pass tree scan,             *)
(* classification, reports) and the acronym-aware case transformation      *)
(* toUnexported.  The latest revision of main.go is modelled.              *)
(*                                                                         *)
(* A Go string that holds an identifier is modelled as the sequence of its *)
(* runes (Unicode code points), which is what []rune(name) yields for the  *)
(* valid UTF-8 the Go scanner accepts.  File paths are ASCII strings.      *)
(***************************************************************************)
EXTENDS Integers, Sequences, FiniteSets, TLC

VARIABLES
    tree,            \* the project under reg.Path: file path -> [ok, toks]
    Ignore,          \* reg.Ignore
    Declarations,    \* reg.Declarations: name -> Decl
    UsageCount,      \* reg.UsageCount: name -> int (0 for an absent key)
    Result,          \* reg.Result
    TotalUnusedLoc,  \* reg.TotalUnusedLoc
    pc,              \* position of the running call: idle, pass1, pass2, accumulate, report
    caller,          \* the call in progress: [op, printResult, jsonOutput]
    err,             \* what the last finished call returned ("" is nil)
    out,             \* what the call made last printed, and the commands it ran
    last,            \* the call made last (finished once pc is idle)
    parses,          \* number of ParseFiles calls started
    accs,            \* number of AccumulateResult calls made
    fixes,           \* number of Fix calls made
    name,            \* toUnexported: the argument
    newName,         \* toUnexported: the value returned
    upc              \* toUnexported: none, input, done

regvars == <<tree, Ignore, Declarations, UsageCount, Result, TotalUnusedLoc,
             pc, caller, err, out, last, parses, accs, fixes>>
uvars == <<name, newName, upc>>
vars == <<tree, Ignore, Declarations, UsageCount, Result, TotalUnusedLoc,
          pc, caller, err, out, last, parses, accs, fixes,
          name, newName, upc>>

(***************************************************************************)
(* Bounds of the model.                                                    *)
(***************************************************************************)
MaxNameLen == 5
MaxParses == 2
MaxAccs == 2
MaxFixes == 1

(***************************************************************************)
(* Runes.  The unicode package on the runes the model draws from: ASCII,   *)
(* U+01C5 (a title-case letter: not upper, not lower, lowers to U+01C6)    *)
(* and U+2102 (DOUBLE-STRUCK CAPITAL C: category Lu with no lower-case     *)
(* mapping, so ToLower leaves it alone).                                   *)
(***************************************************************************)
IsUpper(r) == r \in 65..90 \/ r = 8450

IsLower(r) == r \in 97..122 \/ r = 454

ToLower(r) == IF r \in 65..90 THEN r + 32 ELSE IF r = 453 THEN 454 ELSE r

\* The runes toUnexported is exercised on: A S a _ U+01C5 U+2102.
Alphabet == {65, 83, 97, 95, 453, 8450}

RECURSIVE SeqsOfLen(_, _)
SeqsOfLen(S, n) ==
    IF n = 0 THEN {<<>>}
    ELSE {Append(s, c) : s \in SeqsOfLen(S, n - 1), c \in S}

InputNames == UNION {SeqsOfLen(Alphabet, n) : n \in 0..MaxNameLen}

(***************************************************************************)
(* toUnexported                                                            *)
(***************************************************************************)
\* The loop that finds the first rune that is not upper case: its 0-based
\* index, or -1 when every rune is upper case.
FirstLower(runes) ==
    IF \A i \in 1..Len(runes) : IsUpper(runes[i]) THEN -1
    ELSE (CHOOSE i \in 1..Len(runes) :
              /\ ~IsUpper(runes[i])
              /\ \A j \in 1..(i - 1) : IsUpper(runes[j])) - 1

ToLowerCountNoLastCheck(runes, firstLower) ==
    IF firstLower > 1 /\ IsUpper(runes[firstLower])
    THEN firstLower - 1
    ELSE firstLower

ToLowerCountNoAcronym(runes, firstLower) == 1

ToLowerCountNoGuard(runes, firstLower) ==
    IF firstLower < Len(runes) - 1 THEN firstLower - 1 ELSE firstLower

\* toLowerCount as the code settles it; runes[firstLower-1] of the code is
\* runes[firstLower] here (sequences are 1-based).
ToLowerCount(runes, firstLower) ==
    IF firstLower > 1 /\ IsUpper(runes[firstLower])
    THEN IF firstLower < Len(runes) - 1 THEN firstLower - 1 ELSE firstLower
    ELSE firstLower

\* The final loop: the first n runes lowered, the rest kept.
LowerPrefix(runes, n) ==
    [i \in 1..Len(runes) |-> IF i <= n THEN ToLower(runes[i]) ELSE runes[i]]

toUnexported(s) ==
    IF s = <<>> THEN s
    ELSE IF Len(s) = 1 THEN <<ToLower(s[1])>>
    ELSE LET firstLower == FirstLower(s) IN
         IF firstLower = -1
         THEN [i \in 1..Len(s) |-> ToLower(s[i])]
         ELSE LowerPrefix(s, ToLowerCount(s, firstLower))

(***************************************************************************)
(* Strings (file paths and file names are ASCII).                          *)
(***************************************************************************)
HasSuffix(s, suffix) ==
    /\ Len(s) >= Len(suffix)
    /\ SubSeq(s, Len(s) - Len(suffix) + 1, Len(s)) = suffix

HasPrefix(s, prefix) ==
    /\ Len(s) >= Len(prefix)
    /\ SubSeq(s, 1, Len(prefix)) = prefix

\* The characters of the paths, in ascending byte order.
ByteOrder == "-./0123456789ABCDEFGHIJKLMNOPQRSTUVWXYZ_abcdefghijklmnopqrstuvwxyz"

ByteRank(c) == CHOOSE i \in 1..Len(ByteOrder) : SubSeq(ByteOrder, i, i) = c

\* Go's a < b on strings: byte-wise lexicographic.
StrLess(a, b) ==
    \E k \in 0..Len(a) :
        /\ k <= Len(b)
        /\ SubSeq(a, 1, k) = SubSeq(b, 1, k)
        /\ \/ k = Len(a) /\ k < Len(b)
           \/ /\ k < Len(a)
              /\ k < Len(b)
              /\ ByteRank(SubSeq(a, k + 1, k + 1)) < ByteRank(SubSeq(b, k + 1, k + 1))

\* filepath.Base and filepath.Dir of a slash-separated path.
LastSlash(p) ==
    IF \E i \in 1..Len(p) : SubSeq(p, i, i) = "/"
    THEN CHOOSE i \in 1..Len(p) :
             /\ SubSeq(p, i, i) = "/"
             /\ \A j \in (i + 1)..Len(p) : SubSeq(p, j, j) # "/"
    ELSE 0

Base(p) == SubSeq(p, LastSlash(p) + 1, Len(p))

Dir(p) == SubSeq(p, 1, LastSlash(p) - 1)

(***************************************************************************)
(* The project tree.  Its shape is fixed; what the files hold is drawn in  *)
(* Init.                                                                   *)
(***************************************************************************)
Root == "p"

DirPaths == {"p", "p/a", "p/vendor"}

FilePaths == {"p/a/b.go", "p/a.go", "p/a_test.go", "p/README.md",
              "p/vendor/v.go", "p/vendor/v_test.go"}

IsDir(p) == p \in DirPaths

\* a < b for the paths of the files, evaluated once.
PathLess == [a \in FilePaths, b \in FilePaths |-> StrLess(a, b)]

Children(d) == {p \in (DirPaths \cup FilePaths) \ {Root} : Dir(p) = d}

\* filepath.Walk: a directory, then its entries in lexical order of their
\* names, each walked in turn.
RECURSIVE WalkFrom(_)
RECURSIVE WalkAll(_)
WalkAll(ps) ==
    IF ps = <<>> THEN <<>> ELSE WalkFrom(Head(ps)) \o WalkAll(Tail(ps))

WalkFrom(p) ==
    IF IsDir(p)
    THEN LET kids == Children(p)
             order == CHOOSE s \in [1..Cardinality(kids) -> kids] :
                          \A i, j \in 1..Cardinality(kids) :
                              i < j => StrLess(Base(s[i]), Base(s[j]))
         IN  <<p>> \o WalkAll(order)
    ELSE <<p>>

WalkOrder == WalkFrom(Root)

(***************************************************************************)
(* What a parsed file holds: its identifier nodes in source order.  kind   *)
(* tells what the identifier is: the name of a top-level FuncDecl ("func"),*)
(* of a TypeSpec ("type"), one of the names of a ValueSpec ("value"), or   *)
(* any other identifier ("use": the package name, a reference, a local).   *)
(* endLine and endCol are the End() of the enclosing declaration.          *)
(***************************************************************************)
Tok(n, k, l, c, el, ec) ==
    [name |-> n, kind |-> k, line |-> l, col |-> c, endLine |-> el, endCol |-> ec]

Use(n, l, c) == Tok(n, "use", l, c, l, c + Len(n))

Parsed(toks) == [ok |-> TRUE, toks |-> toks]

Unparsable == [ok |-> FALSE, toks |-> <<>>]

\* Identifiers of the project: p (the package), Foo, Bar, Baz, Qux, low, the
\* blank identifier and U+2102 followed by x, an exported name whose first
\* rune has no lower case.
Pkg == <<112>>
Foo == <<70, 111, 111>>
Bar == <<66, 97, 114>>
Baz == <<66, 97, 122>>
Qux == <<81, 117, 120>>
Low == <<108, 111, 119>>
Cx == <<8450, 120>>
Blank == <<95>>

SourceNames == {Pkg, Foo, Bar, Baz, Qux, Low, Cx, Blank}

\* The identifiers the tree can hold: those of the sources and what Fix
\* renames them to.
IdentNames == SourceNames \cup {toUnexported(n) : n \in SourceNames}

\* What each file of the tree may hold.
\*   p/a/b.go            package p; type Baz struct {} over lines 3 to 5;
\*                       func Foo() {} over lines 8 and 9
\*   p/a.go              package p; var Cx = 1 on line 3; var Foo = 1 on
\*                       line 5; func Bar() {} over lines 7 to 9
\*   p/a_test.go         package p; var _ Baz on line 3
\*                    or package p; func Qux() { Bar() } over lines 3 to 5
\*                    or package p; var _ = Cx on line 3
\*   p/vendor/v_test.go  package p; func low() {} over lines 3 and 4
\* and a file that is not one of these does not parse.
Contents(path) ==
    CASE path = "p/a/b.go" ->
            { Parsed(<<Use(Pkg, 1, 9),
                       Tok(Baz, "type", 3, 6, 5, 2),
                       Tok(Foo, "func", 8, 6, 9, 2)>>) }
      [] path = "p/a.go" ->
            { Parsed(<<Use(Pkg, 1, 9),
                       Tok(Cx, "value", 3, 5, 3, 13),
                       Tok(Foo, "value", 5, 5, 5, 12),
                       Tok(Bar, "func", 7, 6, 9, 2)>>),
              Unparsable }
      [] path = "p/a_test.go" ->
            { Parsed(<<Use(Pkg, 1, 9), Use(Blank, 3, 5), Use(Baz, 3, 7)>>),
              Parsed(<<Use(Pkg, 1, 9),
                       Tok(Qux, "func", 3, 6, 5, 2),
                       Use(Bar, 4, 2)>>),
              Parsed(<<Use(Pkg, 1, 9), Use(Blank, 3, 5), Use(Cx, 3, 9)>>) }
      [] path = "p/vendor/v_test.go" ->
            { Parsed(<<Use(Pkg, 1, 9), Tok(Low, "func", 3, 6, 4, 2)>>),
              Unparsable }
      [] OTHER -> { Unparsable }

\* The trees Init draws from: every file holds one of its contents, at most
\* one file does not parse, and a tree with a file that does not parse has
\* the first p/a_test.go or, when it is under vendor, the second.
Trees == {t \in [FilePaths -> UNION {Contents(f) : f \in FilePaths}] :
              /\ \A f \in FilePaths : t[f] \in Contents(f)
              /\ t["p/a.go"].ok \/ t["p/vendor/v_test.go"].ok
              /\ t["p/a.go"].ok \/ t["p/a_test.go"].toks[3].name = Baz
              /\ t["p/vendor/v_test.go"].ok
                     \/ t["p/a_test.go"].toks[3].name # Cx}

(***************************************************************************)
(* Decl, makeDecl and the bodies of the two walk callbacks.                *)
(***************************************************************************)
Position(file, line, col) == [Filename |-> file, Line |-> line, Column |-> col]

makeDecl(n, start, end) ==
    [Name |-> n, Pos |-> start, End |-> end,
     LineCount |-> end.Line - start.Line + 1]

\* ast.IsExported: the first rune is upper case.
IsExported(n) == n # <<>> /\ IsUpper(n[1])

\* The loop keeping the entry a name already has: first writer wins.
RECURSIVE CollectDeclarationsKeepingFirst(_, _, _)
CollectDeclarationsKeepingFirst(decls, path, toks) ==
    IF toks = <<>> THEN decls
    ELSE LET t == Head(toks)
             stored ==
                 IF t.kind \in {"func", "type", "value"} /\ IsExported(t.name)
                 THEN decls @@
                      (t.name :> makeDecl(t.name,
                                          Position(path, t.line, t.col),
                                          Position(path, t.endLine, t.endCol)))
                 ELSE decls
         IN  CollectDeclarationsKeepingFirst(stored, path, Tail(toks))

\* The loop over file.Decls: every exported name of a FuncDecl, TypeSpec or
\* ValueSpec is stored under its bare name, a later one over an earlier one.
RECURSIVE CollectDeclarations(_, _, _)
CollectDeclarations(decls, path, toks) ==
    IF toks = <<>> THEN decls
    ELSE LET t == Head(toks)
             stored ==
                 IF t.kind \in {"func", "type", "value"} /\ IsExported(t.name)
                 THEN (t.name :> makeDecl(t.name,
                                          Position(path, t.line, t.col),
                                          Position(path, t.endLine, t.endCol)))
                      @@ decls
                 ELSE decls
         IN  CollectDeclarations(stored, path, Tail(toks))

\* ast.Inspect: every identifier node adds one to the count of its name.
RECURSIVE CollectUsage(_, _)
CollectUsage(uc, toks) ==
    IF toks = <<>> THEN uc
    ELSE CollectUsage([uc EXCEPT ![Head(toks).name] = @ + 1], Tail(toks))

\* The first pass skips these directories with all they hold.
SkippedDir(p) ==
    /\ IsDir(p)
    /\ \/ Base(p) = "vendor"
       \/ Base(p) = "testdata"
       \/ HasPrefix(Base(p), ".")

\* Which entries a pass parses.
Pass1Parses(p) == ~IsDir(p) /\ HasSuffix(Base(p), ".go")

Pass2Parses(p) == ~IsDir(p) /\ HasSuffix(Base(p), "_test.go")

\* filepath.Walk after the callback returned SkipDir for the directory at i:
\* the next entry that is not below it.
AfterSkipDir(i) ==
    LET below(j) == HasPrefix(WalkOrder[j], WalkOrder[i] \o "/")
    IN  IF \E j \in (i + 1)..Len(WalkOrder) : ~below(j)
        THEN CHOOSE j \in (i + 1)..Len(WalkOrder) :
                 ~below(j) /\ \A k \in (i + 1)..(j - 1) : below(k)
        ELSE Len(WalkOrder) + 1

\* Nothing printed and no command run.  A report fills kind, text, entries
\* (JSON), lines, total and count (plain text); Fix fills the three counts of
\* its summary and renames, the gopls commands it ran.
NoOutput == [kind |-> "none", text |-> "", entries |-> <<>>, lines |-> <<>>,
             total |-> 0, count |-> 0,
             successful |-> 0, skipped |-> 0, failed |-> 0, renames |-> <<>>]

NoCall == [op |-> "none", printResult |-> FALSE, jsonOutput |-> FALSE]

(***************************************************************************)
(* NewRegistry on an existing path.                                        *)
(***************************************************************************)
Init ==
    /\ tree \in Trees
    /\ Ignore = {}
    /\ Declarations = <<>>
    /\ UsageCount = [n \in IdentNames |-> 0]
    /\ Result = <<>>
    /\ TotalUnusedLoc = 0
    /\ pc = "idle"
    /\ caller = NoCall
    /\ err = ""
    /\ out = NoOutput
    /\ last = "NewRegistry"
    /\ parses = 0
    /\ accs = 0
    /\ fixes = 0
    /\ name = <<>>
    /\ newName = <<>>
    /\ upc = "none"

(***************************************************************************)
(* sort.Slice.  For the at most 12 elements the model sorts, Go's pdqsort  *)
(* is its insertion sort, which is stable: element i ends behind every     *)
(* element that is less than it and every earlier element it is not less   *)
(* than.                                                                   *)
(***************************************************************************)
SortSlice(s, Less(_, _)) ==
    LET n == Len(s)
        place == [i \in 1..n |->
                     1 + Cardinality({j \in 1..n :
                             \/ Less(s[j], s[i])
                             \/ ~Less(s[i], s[j]) /\ j < i})]
    IN  [k \in 1..n |-> s[CHOOSE i \in 1..n : place[i] = k]]

\* The orders in which a range over a Go map may visit the keys.
RECURSIVE Orders(_)
Orders(S) ==
    IF S = {} THEN {<<>>}
    ELSE UNION {{<<k>> \o o : o \in Orders(S \ {k})} : k \in S}

(***************************************************************************)
(* WithIgnoreList.  The argument is a map or nil.                          *)
(***************************************************************************)
IgnoreArgs ==
    {[nil |-> TRUE, names |-> {}]}
        \cup {[nil |-> FALSE, names |-> ns] : ns \in {{}, {Bar, Cx, Qux}}}

WithIgnoreList(ignore) ==
    /\ pc = "idle"
    /\ Ignore' = IF ignore.nil THEN {} ELSE ignore.names
    /\ err' = ""
    /\ out' = NoOutput
    /\ last' = "WithIgnoreList"
    /\ UNCHANGED <<tree, Declarations, UsageCount, Result, TotalUnusedLoc,
                   pc, caller, parses, accs, fixes, uvars>>

(***************************************************************************)
(* Run and ParseFiles: the call, then the first walk, then the second.      *)
(***************************************************************************)
Run(printResult, jsonOutput) ==
    /\ pc = "idle"
    /\ parses < MaxParses
    /\ accs < MaxAccs
    /\ pc' = "pass1"
    /\ caller' = [op |-> "Run", printResult |-> printResult,
                  jsonOutput |-> jsonOutput]
    /\ last' = "Run"
    /\ parses' = parses + 1
    /\ err' = ""
    /\ out' = NoOutput
    /\ UNCHANGED <<tree, Ignore, Declarations, UsageCount, Result,
                   TotalUnusedLoc, accs, fixes, uvars>>

ParseFiles ==
    /\ pc = "idle"
    /\ parses < MaxParses
    /\ pc' = "pass1"
    /\ caller' = [op |-> "ParseFiles", printResult |-> FALSE,
                  jsonOutput |-> FALSE]
    /\ last' = "ParseFiles"
    /\ parses' = parses + 1
    /\ err' = ""
    /\ out' = NoOutput
    /\ UNCHANGED <<tree, Ignore, Declarations, UsageCount, Result,
                   TotalUnusedLoc, accs, fixes, uvars>>

\* One walk doing the work of both: a _test.go file has its identifiers
\* counted for the second walk as soon as the first walk reads it.
RECURSIVE Walk1MergingPhases(_, _)
Walk1MergingPhases(i, acc) ==
    IF i > Len(WalkOrder) THEN acc
    ELSE LET path == WalkOrder[i] IN
         IF SkippedDir(path) THEN Walk1MergingPhases(AfterSkipDir(i), acc)
         ELSE IF ~Pass1Parses(path) THEN Walk1MergingPhases(i + 1, acc)
         ELSE IF ~tree[path].ok
         THEN [acc EXCEPT !.err = "error parsing file " \o path
                                      \o ": syntax error"]
         ELSE Walk1MergingPhases(i + 1,
                  [acc EXCEPT
                      !.decls = CollectDeclarations(@, path, tree[path].toks),
                      !.uc = IF Pass2Parses(path)
                             THEN CollectUsage(CollectUsage(@, tree[path].toks),
                                               tree[path].toks)
                             ELSE CollectUsage(@, tree[path].toks)])

\* The first walk from entry i on: a skipped directory is passed over with
\* all it holds, an entry that is not a .go file is passed over, a file that
\* does not parse ends the walk with the callback's error, and a file that
\* parses gives its declarations and its identifiers.
RECURSIVE Walk1(_, _)
Walk1(i, acc) ==
    IF i > Len(WalkOrder) THEN acc
    ELSE LET path == WalkOrder[i] IN
         IF SkippedDir(path) THEN Walk1(AfterSkipDir(i), acc)
         ELSE IF ~Pass1Parses(path) THEN Walk1(i + 1, acc)
         ELSE IF ~tree[path].ok
         THEN [acc EXCEPT !.err = "error parsing file " \o path
                                      \o ": syntax error"]
         ELSE Walk1(i + 1,
                  [acc EXCEPT
                      !.decls = CollectDeclarations(@, path, tree[path].toks),
                      !.uc = CollectUsage(@, tree[path].toks)])

\* The second walk from entry i on: every _test.go file, whatever directory
\* holds it, gives its identifiers.
RECURSIVE Walk2(_, _)
Walk2(i, acc) ==
    IF i > Len(WalkOrder) THEN acc
    ELSE LET path == WalkOrder[i] IN
         IF ~Pass2Parses(path) THEN Walk2(i + 1, acc)
         ELSE IF ~tree[path].ok
         THEN [acc EXCEPT !.err = "error parsing test file " \o path
                                      \o ": syntax error"]
         ELSE Walk2(i + 1, [acc EXCEPT !.uc = CollectUsage(@, tree[path].toks)])

\* A partial-results mode: the failing file is dropped and the caller goes on.
ParseFailsSilently(e) ==
    /\ pc' = IF pc = "pass1" THEN "pass2"
             ELSE IF caller.op = "Run" THEN "accumulate" ELSE "idle"
    /\ caller' = IF pc = "pass2" /\ caller.op # "Run" THEN NoCall ELSE caller
    /\ err' = err

\* A walk returned the error e: ParseFiles wraps it and returns, and Run
\* wraps it again and returns without classifying.
ParseFails(e) ==
    /\ pc' = "idle"
    /\ caller' = NoCall
    /\ err' = IF caller.op = "Run" THEN "error parsing project: " \o e ELSE e

Pass1 ==
    /\ pc = "pass1"
    /\ \E w \in {Walk1(1, [decls |-> Declarations, uc |-> UsageCount,
                            err |-> ""])} :
           /\ Declarations' = w.decls
           /\ UsageCount' = w.uc
           /\ IF w.err # ""
              THEN ParseFails("error walking project: " \o w.err)
              ELSE pc' = "pass2" /\ UNCHANGED <<caller, err>>
    /\ UNCHANGED <<tree, Ignore, Result, TotalUnusedLoc, out, last, parses,
                   accs, fixes, uvars>>

Pass2 ==
    /\ pc = "pass2"
    /\ \E w \in {Walk2(1, [uc |-> UsageCount, err |-> ""])} :
           /\ UsageCount' = w.uc
           /\ IF w.err # ""
              THEN ParseFails("error walking test files: " \o w.err)
              ELSE IF caller.op = "Run"
              THEN pc' = "accumulate" /\ UNCHANGED <<caller, err>>
              ELSE pc' = "idle" /\ caller' = NoCall /\ UNCHANGED err
    /\ UNCHANGED <<tree, Ignore, Declarations, Result, TotalUnusedLoc, out,
                   last, parses, accs, fixes, uvars>>

(***************************************************************************)
(* AccumulateResult, called by Run or on its own.                          *)
(***************************************************************************)
UnusedIgnoringNothing(n, ignore, uc) == uc[n] <= 1

UnusedBelowOne(n, ignore, uc) == n \notin ignore /\ uc[n] < 1

UnusedAtMostTwo(n, ignore, uc) == n \notin ignore /\ uc[n] <= 2

\* Whether the loop appends the declaration stored under n.
Unused(n, ignore, uc) == n \notin ignore /\ uc[n] <= 1

AddLocCountingDecls(total, decl) == total + 1

\* reg.TotalUnusedLoc += decl.LineCount
AddLoc(total, decl) == total + decl.LineCount

\* The loop over reg.Declarations when the range visits the unused names in
\* the given order: the names it skips leave no trace, whenever it visits them.
RECURSIVE AccumulateOver(_, _)
AccumulateOver(order, acc) ==
    IF order = <<>> THEN acc
    ELSE LET decl == Declarations[Head(order)]
         IN  AccumulateOver(Tail(order),
                 [res |-> Append(acc.res, decl),
                  total |-> AddLoc(acc.total, decl)])

AccumulateResult ==
    /\ \/ pc = "idle" /\ accs < MaxAccs
       \/ pc = "accumulate"
    /\ \E order \in Orders({n \in DOMAIN Declarations :
                                Unused(n, Ignore, UsageCount)}) :
           \E acc \in {AccumulateOver(order, [res |-> Result,
                                              total |-> TotalUnusedLoc])} :
               /\ Result' = acc.res
               /\ TotalUnusedLoc' = acc.total
    /\ accs' = accs + 1
    /\ IF pc = "idle"
       THEN /\ last' = "AccumulateResult"
            /\ err' = ""
            /\ out' = NoOutput
            /\ UNCHANGED <<pc, caller>>
       ELSE IF caller.printResult
       THEN pc' = "report" /\ UNCHANGED <<caller, last, err, out>>
       ELSE /\ pc' = "idle"
            /\ caller' = NoCall
            /\ UNCHANGED <<last, err, out>>
    /\ UNCHANGED <<tree, Ignore, Declarations, UsageCount, parses, fixes, uvars>>

(***************************************************************************)
(* Report and ReportJSON.                                                  *)
(***************************************************************************)
LineCountLessDescending(a, b) == a.LineCount > b.LineCount

LineCountLess(a, b) == a.LineCount < b.LineCount

\* The plain report: Result is sorted in place, then printed.
TextReport(res) ==
    IF Len(res) > 0
    THEN [NoOutput EXCEPT
              !.kind = "text",
              !.lines = [i \in 1..Len(res) |->
                            [LineCount |-> res[i].LineCount,
                             Name |-> res[i].Name,
                             Pos |-> res[i].Pos]],
              !.total = TotalUnusedLoc,
              !.count = Len(res)]
    ELSE [NoOutput EXCEPT !.kind = "text",
                          !.text = "No unused exported identifiers found!"]

\* fileMap: the issues of one file, in the order of Result.
RECURSIVE IssuesOf(_, _)
IssuesOf(res, file) ==
    IF res = <<>> THEN <<>>
    ELSE IF Head(res).Pos.Filename = file
    THEN <<[Symbol |-> Head(res).Name, Line |-> Head(res).Pos.Line]>>
             \o IssuesOf(Tail(res), file)
    ELSE IssuesOf(Tail(res), file)

IssueLessDescending(a, b) == a.Line > b.Line

IssueLess(a, b) == a.Line < b.Line

FileLess(a, b) == PathLess[a.File, b.File]

NilResults == [nil |-> TRUE, elems |-> <<>>]

\* results := []FileIssues{}: an empty slice that is not nil.
EmptyResults == [nil |-> FALSE, elems |-> <<>>]

\* append(results, ...) for each file of fileMap, visited in the given order.
RECURSIVE AppendFileIssues(_, _, _)
AppendFileIssues(results, order, res) ==
    IF order = <<>> THEN results
    ELSE AppendFileIssues(
             [nil |-> FALSE,
              elems |-> Append(results.elems,
                               [File |-> Head(order),
                                Issues |-> SortSlice(IssuesOf(res, Head(order)),
                                                     IssueLess)])],
             Tail(order), res)

\* json.MarshalIndent of a slice: null for a nil slice, else an array.
MarshalIndent(results) ==
    [NoOutput EXCEPT !.kind = "json",
                     !.text = IF results.nil THEN "null"
                              ELSE IF results.elems = <<>> THEN "[]"
                              ELSE "[...]",
                     !.entries = results.elems]

\* What ReportJSON prints when the range over fileMap visits the files in
\* the given order.
JSONReport(res, order) ==
    LET results == AppendFileIssues(EmptyResults, order, res)
    IN  MarshalIndent([results EXCEPT !.elems = SortSlice(@, FileLess)])

FilesOf(res) == {res[i].Pos.Filename : i \in 1..Len(res)}

Report(jsonOutput) ==
    /\ \/ pc = "idle"
       \/ pc = "report" /\ jsonOutput = caller.jsonOutput
    /\ IF jsonOutput
       THEN /\ \E order \in Orders(FilesOf(Result)) :
                   out' = JSONReport(Result, order)
            /\ UNCHANGED Result
       ELSE \E sorted \in {IF Len(Result) > 0
                            THEN SortSlice(Result, LineCountLess)
                            ELSE Result} :
                /\ Result' = sorted
                /\ out' = TextReport(sorted)
    /\ pc' = "idle"
    /\ caller' = NoCall
    /\ last' = IF pc = "idle" THEN "Report" ELSE "Run"
    /\ err' = ""
    /\ UNCHANGED <<tree, Ignore, Declarations, UsageCount, TotalUnusedLoc,
                   parses, accs, fixes, uvars>>

ReportJSON ==
    /\ pc = "idle"
    /\ \E order \in Orders(FilesOf(Result)) : out' = JSONReport(Result, order)
    /\ last' = "ReportJSON"
    /\ err' = ""
    /\ UNCHANGED <<tree, Ignore, Declarations, UsageCount, Result,
                   TotalUnusedLoc, pc, caller, parses, accs, fixes, uvars>>

(***************************************************************************)
(* Fix.  exec.LookPath and each gopls run are the environment's: found     *)
(* says whether gopls is installed, fails the files on which the gopls     *)
(* commands of this call fail.                                             *)
(***************************************************************************)
FixLess(a, b) ==
    IF a.Pos.Filename # b.Pos.Filename
    THEN PathLess[a.Pos.Filename, b.Pos.Filename]
    ELSE a.Pos.Line < b.Pos.Line

\* gopls rename -w file:line:column newName, succeeding: the identifier at
\* the position is renamed.
Renamed(t, pos, new) ==
    [t EXCEPT ![pos.Filename].toks =
        [i \in 1..Len(@) |->
            IF @[i].line = pos.Line /\ @[i].col = pos.Column
            THEN [@[i] EXCEPT !.name = new]
            ELSE @[i]]]

\* The loop with a return at the first failed command.
RECURSIVE FixLoopStoppingAtFailure(_, _, _, _, _)
FixLoopStoppingAtFailure(res, i, dryRun, fails, acc) ==
    IF i > Len(res) \/ acc.failed > 0 THEN acc
    ELSE LET decl == res[i]
             new == toUnexported(decl.Name)
         IN  FixLoopStoppingAtFailure(res, i + 1, dryRun, fails,
                 IF new = decl.Name
                 THEN [acc EXCEPT !.skipped = @ + 1]
                 ELSE IF dryRun
                 THEN [acc EXCEPT !.successful = @ + 1]
                 ELSE IF decl.Pos.Filename \in fails
                 THEN [acc EXCEPT
                          !.failed = @ + 1,
                          !.renames = Append(@, [at |-> decl.Pos, to |-> new,
                                                 ok |-> FALSE])]
                 ELSE [acc EXCEPT
                          !.successful = @ + 1,
                          !.renames = Append(@, [at |-> decl.Pos, to |-> new,
                                                 ok |-> TRUE]),
                          !.tree = Renamed(@, decl.Pos, new)])

\* The loop without its dry-run branch: gopls is run in a dry run too.
FixLoopRunningGopls(res, i, dryRun, fails, acc) ==
    FixLoopStoppingAtFailure(res, i, FALSE, {}, acc)

\* The loop over the sorted Result, from element i on.
RECURSIVE FixLoop(_, _, _, _, _)
FixLoop(res, i, dryRun, fails, acc) ==
    IF i > Len(res) THEN acc
    ELSE LET decl == res[i]
             new == toUnexported(decl.Name)
         IN  FixLoop(res, i + 1, dryRun, fails,
                 IF new = decl.Name
                 THEN [acc EXCEPT !.skipped = @ + 1]
                 ELSE IF dryRun
                 THEN [acc EXCEPT !.successful = @ + 1]
                 ELSE IF decl.Pos.Filename \in fails
                 THEN [acc EXCEPT
                          !.failed = @ + 1,
                          !.renames = Append(@, [at |-> decl.Pos, to |-> new,
                                                 ok |-> FALSE])]
                 ELSE [acc EXCEPT
                          !.successful = @ + 1,
                          !.renames = Append(@, [at |-> decl.Pos, to |-> new,
                                                 ok |-> TRUE]),
                          !.tree = Renamed(@, decl.Pos, new)])

\* Fix with exec.LookPath moved below the shortcut for an empty Result.
FixLookingLate(dryRun, found, fails) ==
    /\ pc = "idle"
    /\ fixes < MaxFixes
    /\ fixes' = fixes + 1
    /\ last' = "Fix"
    /\ IF Len(Result) = 0
       THEN /\ err' = ""
            /\ out' = [NoOutput EXCEPT !.kind = "fix",
                                       !.text = "No unused exported symbols to fix!"]
       ELSE /\ err' = IF found THEN ""
                      ELSE "gopls not found. Install with: go install golang.org/x/tools/gopls@latest"
            /\ out' = NoOutput
    /\ UNCHANGED <<tree, Result, Ignore, Declarations, UsageCount,
                   TotalUnusedLoc, pc, caller, parses, accs, uvars>>

Fix(dryRun, found, fails) ==
    /\ pc = "idle"
    /\ fixes < MaxFixes
    /\ fixes' = fixes + 1
    /\ last' = "Fix"
    /\ IF ~found
       THEN /\ err' = "gopls not found. Install with: go install golang.org/x/tools/gopls@latest"
            /\ out' = NoOutput
            /\ UNCHANGED <<tree, Result>>
       ELSE IF Len(Result) = 0
       THEN /\ err' = ""
            /\ out' = [NoOutput EXCEPT !.kind = "fix",
                                       !.text = "No unused exported symbols to fix!"]
            /\ UNCHANGED <<tree, Result>>
       ELSE \E sorted \in {SortSlice(Result, FixLess)} :
            \E done \in {FixLoop(sorted, 1, dryRun, fails,
                                 [tree |-> tree, successful |-> 0,
                                  skipped |-> 0, failed |-> 0,
                                  renames |-> <<>>])} :
                /\ Result' = sorted
                /\ tree' = done.tree
                /\ out' = [NoOutput EXCEPT
                              !.kind = "fix",
                              !.text = IF dryRun THEN "Dry-run summary"
                                       ELSE "Summary",
                              !.successful = done.successful,
                              !.skipped = done.skipped,
                              !.failed = done.failed,
                              !.renames = done.renames]
                /\ err' = IF ~dryRun /\ done.failed > 0
                          THEN "some renames failed"
                          ELSE ""
    /\ UNCHANGED <<Ignore, Declarations, UsageCount, TotalUnusedLoc, pc,
                   caller, parses, accs, uvars>>

\* The gopls commands that may fail in one call: none, or every command
\* addressed at a file of one of these sets.
FailingFiles == {{}, {"p/a.go"}, {"p/a.go", "p/a/b.go"}}

\* No command is run, and so none fails, when gopls is missing or in a dry
\* run.
FailChoices(dryRun, found) ==
    IF found /\ ~dryRun THEN FailingFiles ELSE {{}}

FixCall ==
    \E dryRun, found \in BOOLEAN :
        \E fails \in FailChoices(dryRun, found) : Fix(dryRun, found, fails)

(***************************************************************************)
(* toUnexported on its own: one call on an arbitrary name.                 *)
(***************************************************************************)
ToUnexportedCall ==
    /\ upc = "input"
    /\ newName' = toUnexported(name)
    /\ upc' = "done"
    /\ UNCHANGED <<name, regvars>>

InitU ==
    /\ tree = [f \in FilePaths |-> Unparsable]
    /\ Ignore = {}
    /\ Declarations = <<>>
    /\ UsageCount = [n \in IdentNames |-> 0]
    /\ Result = <<>>
    /\ TotalUnusedLoc = 0
    /\ pc = "idle"
    /\ caller = NoCall
    /\ err = ""
    /\ out = NoOutput
    /\ last = "NewRegistry"
    /\ parses = 0
    /\ accs = 0
    /\ fixes = 0
    /\ name \in InputNames
    /\ newName = <<>>
    /\ upc = "input"

NextU == ToUnexportedCall

SpecU == InitU /\ [][NextU]_vars

(***************************************************************************)
(* The registry.                                                           *)
(***************************************************************************)
Next ==
    \/ \E ignore \in IgnoreArgs : WithIgnoreList(ignore)
    \/ \E printResult, jsonOutput \in BOOLEAN : Run(printResult, jsonOutput)
    \/ ParseFiles
    \/ Pass1
    \/ Pass2
    \/ AccumulateResult
    \/ \E jsonOutput \in BOOLEAN : Report(jsonOutput)
    \/ ReportJSON
    \/ FixCall

Spec == Init /\ [][Next]_vars

(***************************************************************************)
(* What the properties below speak of.                                     *)
(***************************************************************************)
Range(s) == {s[i] : i \in 1..Len(s)}

\* The first Run on the registry has returned nil and no call has followed;
\* no ParseFiles and no AccumulateResult came before it.
AfterFirstRun ==
    /\ pc = "idle"
    /\ last = "Run"
    /\ err = ""
    /\ parses = 1
    /\ accs = 1

\* The first ParseFiles on the registry has returned nil, called on its own
\* or by Run.
AfterFirstParse ==
    /\ parses = 1
    /\ \/ pc = "idle" /\ last = "ParseFiles" /\ err = ""
       \/ pc = "accumulate"

\* The files of the tree the scan reads: the .go files outside the skipped
\* directories and the _test.go files anywhere.
InSkippedDir(f) == \E d \in DirPaths : SkippedDir(d) /\ HasPrefix(f, d \o "/")

ScannedFiles ==
    {f \in FilePaths : \/ Pass1Parses(f) /\ ~InSkippedDir(f)
                       \/ Pass2Parses(f)}

\* The identifier occurrences of n in one file and in all the scanned files.
OccurrencesIn(f, n) ==
    Cardinality({i \in 1..Len(tree[f].toks) : tree[f].toks[i].name = n})

RECURSIVE SumOccurrences(_, _)
SumOccurrences(fs, n) ==
    IF fs = {} THEN 0
    ELSE LET f == CHOOSE g \in fs : TRUE
         IN  OccurrencesIn(f, n) + SumOccurrences(fs \ {f}, n)

Occurrences(n) == SumOccurrences(ScannedFiles, n)

\* n names an exported top-level declaration of a scanned file.
DeclaredExported(n) ==
    /\ IsExported(n)
    /\ \E f \in ScannedFiles : \E i \in 1..Len(tree[f].toks) :
           /\ tree[f].toks[i].name = n
           /\ tree[f].toks[i].kind \in {"func", "type", "value"}

RECURSIVE SumLineCount(_)
SumLineCount(res) ==
    IF res = <<>> THEN 0 ELSE Head(res).LineCount + SumLineCount(Tail(res))

(***************************************************************************)
(* C1.  After one Run on a fresh registry, Result holds exactly the        *)
(* declarations stored in Declarations whose name is not in Ignore and     *)
(* whose usage count is at most 1, each of them once.                      *)
(***************************************************************************)
C1_ResultIsExactlyTheUnused ==
    AfterFirstRun =>
        /\ Range(Result) =
               {Declarations[n] : n \in {m \in DOMAIN Declarations :
                                             m \notin Ignore /\ UsageCount[m] <= 1}}
        /\ \A i, j \in 1..Len(Result) : i # j => Result[i] # Result[j]

\* C1 witness: a first Run that reported two declarations and left out one
\* that is used.
C1_Witness ==
    /\ AfterFirstRun
    /\ Len(Result) = 2
    /\ \E n \in DOMAIN Declarations : UsageCount[n] > 1

(***************************************************************************)
(* C2.  After a Run with an ignore set attached before it, no name of the  *)
(* ignore set is in Result or in what Run printed, whatever its usage      *)
(* count.                                                                  *)
(***************************************************************************)
C2_IgnoredNeverReported ==
    AfterFirstRun =>
        \A n \in Ignore :
            /\ \A i \in 1..Len(Result) : Result[i].Name # n
            /\ \A i \in 1..Len(out.lines) : out.lines[i].Name # n
            /\ \A i \in 1..Len(out.entries) :
                   \A k \in 1..Len(out.entries[i].Issues) :
                       out.entries[i].Issues[k].Symbol # n

\* C2 witness: a first Run that printed a report with a declaration in it,
\* while an ignored declaration has a usage count of 1.
C2_Witness ==
    /\ AfterFirstRun
    /\ out.kind = "json"
    /\ Len(Result) >= 1
    /\ \E n \in Ignore : n \in DOMAIN Declarations /\ UsageCount[n] = 1

(***************************************************************************)
(* C3.  In every reachable state TotalUnusedLoc is the sum of LineCount    *)
(* over the elements of Result.                                            *)
(***************************************************************************)
C3_TotalIsSumOfLineCounts == TotalUnusedLoc = SumLineCount(Result)

\* C3 witness: AccumulateResult ran twice, Result holds four declarations of
\* more than four lines together, and Fix has just sorted it.
C3_Witness ==
    /\ accs = 2
    /\ Len(Result) = 4
    /\ TotalUnusedLoc > 4
    /\ last = "Fix"
    /\ pc = "idle"

(***************************************************************************)
(* C4.  As claimed: after Run, a name that an exported top-level           *)
(* declaration of a scanned file carries and that occurs nowhere else in   *)
(* the tree has a usage count of 1 and is in Result unless it is ignored.  *)
(* A declaration of a _test.go file refutes it.                            *)
(***************************************************************************)
C4_DeclaredOnceIsReported ==
    AfterFirstRun =>
        \A n \in IdentNames :
            DeclaredExported(n) /\ Occurrences(n) = 1 =>
                /\ UsageCount[n] = 1
                /\ n \notin Ignore => \E i \in 1..Len(Result) : Result[i].Name = n

(***************************************************************************)
(* C5.  As claimed: after ParseFiles on a fresh registry the usage count   *)
(* of every name is the number of its occurrences in the scanned files,    *)
(* each counted once.  The identifiers of a _test.go file outside the      *)
(* skipped directories refute it.                                          *)
(***************************************************************************)
C5_UsageCountsOccurrences ==
    AfterFirstParse =>
        \A n \in IdentNames : UsageCount[n] = Occurrences(n)

(***************************************************************************)
(* toUnexported: what the properties below speak of.                       *)
(***************************************************************************)
\* The runes of an ASCII word.
Letters == "ABCDEFGHIJKLMNOPQRSTUVWXYZabcdefghijklmnopqrstuvwxyz"

LetterCode(c) ==
    LET i == CHOOSE k \in 1..Len(Letters) : SubSeq(Letters, k, k) = c
    IN  IF i <= 26 THEN 64 + i ELSE 70 + i

Runes(word) == [i \in 1..Len(word) |-> LetterCode(SubSeq(word, i, i))]

\* The reference algorithm, with the indices counted from 0 as the claim
\* counts them.
ReferenceUnexported(s) ==
    IF Len(s) = 0 THEN s
    ELSE IF Len(s) = 1 THEN <<ToLower(s[1])>>
    ELSE IF \A i \in 1..Len(s) : IsUpper(s[i])
    THEN [i \in 1..Len(s) |-> ToLower(s[i])]
    ELSE LET nonUpper == {i \in 0..(Len(s) - 1) : ~IsUpper(s[i + 1])}
             firstLower == CHOOSE i \in nonUpper : \A j \in nonUpper : i <= j
             k == IF firstLower > 1 /\ firstLower # Len(s) - 1
                  THEN firstLower - 1
                  ELSE firstLower
         IN  [i \in 1..Len(s) |-> IF i <= k THEN ToLower(s[i]) ELSE s[i]]

\* The length of the run of upper-case runes a name starts with.
LeadingRun(s) ==
    Cardinality({i \in 1..Len(s) : \A j \in 1..i : IsUpper(s[j])})

\* The result is the name with its first rune lowered and the other m - 1
\* runes of its leading run as they were.
MixedCasePrefix(s, result, m) ==
    /\ result[1] = ToLower(s[1])
    /\ \A i \in 2..m : result[i] = s[i]

(***************************************************************************)
(* C6.  toUnexported returns what the reference algorithm returns, on      *)
(* every name and on the six names the claim spells out.                   *)
(***************************************************************************)
SpelledOut ==
    /\ toUnexported(Runes("MyFunc")) = Runes("myFunc")
    /\ toUnexported(Runes("HTTPServer")) = Runes("httpServer")
    /\ toUnexported(Runes("ID")) = Runes("id")
    /\ toUnexported(Runes("HTTPs")) = Runes("https")
    /\ toUnexported(Runes("APIURLPath")) = Runes("apiurlPath")
    /\ toUnexported(Runes("UserID")) = Runes("userID")

C6_MatchesReference ==
    /\ upc = "done" => newName = ReferenceUnexported(name)
    /\ SpelledOut

\* C6 witness: AASaa gave aaSaa, the case k = firstLower - 1.
C6_Witness ==
    /\ upc = "done"
    /\ name = <<65, 65, 83, 97, 97>>
    /\ newName = <<97, 97, 83, 97, 97>>

(***************************************************************************)
(* C7.  As claimed: the first rune of toUnexported(name) is lower case for *)
(* every name that is not empty.                                           *)
(***************************************************************************)
C7_FirstIsLower ==
    upc = "done" /\ name # <<>> => IsLower(newName[1])

\* C7 amended: the first rune of toUnexported(name) is lower case for every
\* name whose first rune is a lower-case letter or an upper-case letter that
\* has a lower-case form.
C7_FirstIsLowerWhenItCanBe ==
    /\ upc = "done"
    /\ name # <<>>
    /\ \/ IsLower(name[1])
       \/ IsUpper(name[1]) /\ IsLower(ToLower(name[1]))
    => IsLower(newName[1])

\* C7 witness: a name of several runes that starts with an upper-case letter
\* came back with that letter lowered.
C7_Witness ==
    /\ upc = "done"
    /\ Len(name) >= 2
    /\ IsUpper(name[1])
    /\ newName[1] # name[1]
    /\ IsLower(newName[1])

(***************************************************************************)
(* C8.  As claimed: for a name that starts with a run of m >= 2 upper-case *)
(* runes, the result is never the first rune lowered followed by the other *)
(* m - 1 runes of the run unchanged, and only the last rune of the run may *)
(* stay upper case.                                                        *)
(***************************************************************************)
C8_NoMixedCasePrefix ==
    upc = "done" /\ LeadingRun(name) >= 2 =>
        /\ ~MixedCasePrefix(name, newName, LeadingRun(name))
        /\ \A i \in 1..(LeadingRun(name) - 1) : ~IsUpper(newName[i])

\* C8 amended: when every rune of the run has a lower-case form, only the
\* last rune of the run may stay upper case, and the result is the mixed
\* prefix only when m = 2 and two runes or more follow the run.
C8_NoMixedCasePrefixBeyondTwo ==
    /\ upc = "done"
    /\ LeadingRun(name) >= 2
    /\ \A i \in 1..LeadingRun(name) : IsLower(ToLower(name[i]))
    => /\ \A i \in 1..(LeadingRun(name) - 1) : IsLower(newName[i])
       /\ MixedCasePrefix(name, newName, LeadingRun(name))
              <=> LeadingRun(name) = 2 /\ Len(name) >= 4

\* C8 witness: ASAaa, a run of three, gave asAaa.
C8_Witness ==
    /\ upc = "done"
    /\ name = <<65, 83, 65, 97, 97>>
    /\ newName = <<97, 115, 65, 97, 97>>

(***************************************************************************)
(* C9.  What ReportJSON prints has one entry for each file of Result, in   *)
(* ascending order of the file paths, and the issues of an entry are the   *)
(* declarations Result holds for that file, as symbol and line, in         *)
(* non-decreasing order of the lines.                                      *)
(***************************************************************************)
IssueOf(decl) == [Symbol |-> decl.Name, Line |-> decl.Pos.Line]

C9_JSONGroupedAndSorted ==
    out.kind = "json" =>
        /\ Len(out.entries) = Cardinality(FilesOf(Result))
        /\ {out.entries[i].File : i \in 1..Len(out.entries)} = FilesOf(Result)
        /\ \A i, j \in 1..Len(out.entries) :
               i < j => StrLess(out.entries[i].File, out.entries[j].File)
        /\ \A i \in 1..Len(out.entries) :
               LET issues == out.entries[i].Issues
                   mine == {k \in 1..Len(Result) :
                               Result[k].Pos.Filename = out.entries[i].File}
               IN  /\ Len(issues) = Cardinality(mine)
                   /\ \A k \in mine :
                          Cardinality({j \in 1..Len(issues) :
                                          issues[j] = IssueOf(Result[k])})
                              = Cardinality({j \in mine :
                                          IssueOf(Result[j]) = IssueOf(Result[k])})
                   /\ \A j \in 1..(Len(issues) - 1) :
                          issues[j].Line <= issues[j + 1].Line

\* C9 witness: ReportJSON printed two entries for a Result that holds the
\* declaration of the second file before the one of the first.
C9_Witness ==
    /\ out.kind = "json"
    /\ last = "ReportJSON"
    /\ Len(out.entries) = 2
    /\ Len(Result) >= 2
    /\ StrLess(Result[2].Pos.Filename, Result[1].Pos.Filename)

(***************************************************************************)
(* C10.  When Result is empty, what the structured report prints is the    *)
(* empty array [] and not null.                                            *)
(***************************************************************************)
C10_EmptyJSONIsEmptyArray ==
    out.kind = "json" /\ Result = <<>> =>
        /\ out.text = "[]"
        /\ out.entries = <<>>

\* C10 witness: a Run printed the structured report of an empty Result, every
\* unused declaration being in the ignore set.
C10_Witness ==
    /\ AfterFirstRun
    /\ out.kind = "json"
    /\ Result = <<>>
    /\ \E n \in DOMAIN Declarations : UsageCount[n] <= 1
    /\ \A n \in DOMAIN Declarations : UsageCount[n] <= 1 => n \in Ignore

\* The number of elements of s equal to x.
CountIn(s, x) == Cardinality({i \in 1..Len(s) : s[i] = x})

\* s and t hold the same elements the same number of times.
IsPermutation(s, t) ==
    /\ Len(s) = Len(t)
    /\ \A x \in Range(s) \cup Range(t) : CountIn(s, x) = CountIn(t, x)

\* What a printed line shows of an element of Result.
LineOf(decl) ==
    [LineCount |-> decl.LineCount, Name |-> decl.Name, Pos |-> decl.Pos]

(***************************************************************************)
(* C11.  Every step that prints the plain report prints one line for each  *)
(* element Result had before the call, no element dropped or printed       *)
(* twice, and the lines are in ascending LineCount order: the span of a    *)
(* line is at most the span of the line after it.  Result itself is left   *)
(* in the printed order.                                                   *)
(***************************************************************************)
C11_TextReportAscending ==
    [][out'.kind = "text" /\ out' # out =>
          /\ IsPermutation(out'.lines,
                           [i \in 1..Len(Result) |-> LineOf(Result[i])])
          /\ \A i \in 1..(Len(out'.lines) - 1) :
                 out'.lines[i].LineCount <= out'.lines[i + 1].LineCount
          /\ out'.lines = [i \in 1..Len(Result') |-> LineOf(Result'[i])]]_vars

\* The plain report has printed two lines of different spans.
C11_Witness ==
    /\ out.kind = "text"
    /\ Len(out.lines) = 2
    /\ out.lines[1].LineCount < out.lines[2].LineCount
    /\ out.lines[1].Name = Cx
    /\ out.lines[2].Name = Bar

\* sub occurs in the text s.
Contains(s, sub) ==
    \E i \in 1..(Len(s) - Len(sub) + 1) : SubSeq(s, i, i + Len(sub) - 1) = sub

\* The files a pass reads and cannot parse, and the one the walk meets first.
UnparsableIn(pass) ==
    {f \in FilePaths :
        /\ IF pass = "pass1" THEN Pass1Parses(f) /\ ~InSkippedDir(f)
                             ELSE Pass2Parses(f)
        /\ ~tree[f].ok}

\* The place of a path in the order the walks visit the tree.
WalkIndex(f) == CHOOSE i \in 1..Len(WalkOrder) : WalkOrder[i] = f

FirstOf(fs) == CHOOSE f \in fs : \A g \in fs : WalkIndex(f) <= WalkIndex(g)

\* A step of Run out of one of its walks: if a file the walk reads does not
\* parse, Run returns the error and nothing else happens; else Run goes on.
RunWalkStep ==
    pc \in {"pass1", "pass2"} /\ caller.op = "Run" /\ pc' # pc =>
        IF UnparsableIn(pc) # {}
        THEN /\ pc' = "idle"
             /\ err' # ""
             /\ Contains(err', FirstOf(UnparsableIn(pc)))
             /\ out' = NoOutput
             /\ UNCHANGED <<Result, TotalUnusedLoc, accs>>
             /\ accs = 0 => Result' = <<>> /\ TotalUnusedLoc' = 0
        ELSE /\ pc' = (IF pc = "pass1" THEN "pass2" ELSE "accumulate")
             /\ err' = ""

(***************************************************************************)
(* C12.  Inside Run, a walk over a tree in which a file the walk reads     *)
(* does not parse ends the Run: Run returns an error whose text holds the  *)
(* path of the first such file, AccumulateResult is not called, nothing is *)
(* printed, and Result and TotalUnusedLoc keep their values, which are the *)
(* empty slice and 0 when nothing was classified before.  A walk over      *)
(* files that all parse does not end the Run.  Both passes are covered.    *)
(***************************************************************************)
C12_ParseFailureIsFatal == [][RunWalkStep]_vars

\* C12 witness: the first Run has failed on p/a.go after p/a/b.go was
\* collected, and nothing was classified or printed.
C12_Witness ==
    /\ pc = "idle"
    /\ last = "Run"
    /\ parses = 1
    /\ accs = 0
    /\ Contains(err, "p/a.go")
    /\ Baz \in DOMAIN Declarations
    /\ UsageCount[Baz] = 1
    /\ Result = <<>>
    /\ TotalUnusedLoc = 0
    /\ out = NoOutput

\* The same for the second walk, which fails on p/vendor/v_test.go.
C12_WitnessPass2 ==
    /\ pc = "idle"
    /\ last = "Run"
    /\ parses = 1
    /\ accs = 0
    /\ Contains(err, "error parsing test file p/vendor/v_test.go")
    /\ Bar \in DOMAIN Declarations
    /\ Result = <<>>

\* The elements of Result whose private name differs from their name, in
\* the order of Result.
HasPrivateName(decl) == toUnexported(decl.Name) # decl.Name

Renamable == SelectSeq(Result, HasPrivateName)

\* A Fix that is not a dry run has gone through a Result that is not empty.
AfterRealFix ==
    /\ pc = "idle"
    /\ last = "Fix"
    /\ out.kind = "fix"
    /\ out.text = "Summary"

(***************************************************************************)
(* C13.  After a Fix that is not a dry run, every element of Result has    *)
(* been handled once whether or not a command before it failed: the gopls  *)
(* commands that were run are, in the order of Result, one for each        *)
(* element whose private name differs, at its position and with its        *)
(* private name; the other elements are counted as skipped, and the three  *)
(* counts of the summary add up to the length of Result.  Fix returns an   *)
(* error exactly when one of these commands failed, and it returns it with *)
(* all of them run.                                                        *)
(***************************************************************************)
C13_FailedRenameDoesNotStopFix ==
    AfterRealFix =>
        /\ Len(out.renames) = Len(Renamable)
        /\ \A k \in 1..Len(Renamable) :
               /\ out.renames[k].at = Renamable[k].Pos
               /\ out.renames[k].to = toUnexported(Renamable[k].Name)
        /\ out.skipped = Len(Result) - Len(Renamable)
        /\ out.successful + out.skipped + out.failed = Len(Result)
        /\ out.failed =
               Cardinality({k \in 1..Len(out.renames) : ~out.renames[k].ok})
        /\ err # "" <=> \E k \in 1..Len(out.renames) : ~out.renames[k].ok
        /\ err \in {"", "some renames failed"}

\* C13 witness: the first command failed and the second one was run and
\* succeeded; Fix returned the error.
C13_Witness ==
    /\ AfterRealFix
    /\ Len(out.renames) = 2
    /\ ~out.renames[1].ok
    /\ out.renames[2].ok
    /\ out.failed = 1
    /\ out.successful = 1
    /\ err = "some renames failed"

\* A step in which a dry run of Fix goes through a Result that is not empty:
\* no gopls command is run, the tree is left as it was, every element whose
\* private name differs is counted as successful and the others as skipped,
\* and Fix returns nil.
DryRunStep ==
    out' # out /\ out'.kind = "fix" /\ out'.text = "Dry-run summary" =>
        /\ out'.renames = <<>>
        /\ tree' = tree
        /\ out'.successful = Len(Renamable)
        /\ out'.skipped = Len(Result) - Len(Renamable)
        /\ out'.failed = 0
        /\ err' = ""

(***************************************************************************)
(* C14.  A dry run of Fix runs no gopls command for any element of Result: *)
(* every element whose private name differs from its name is counted as    *)
(* successful, no file of the tree is modified, the failure count is 0 and *)
(* Fix returns no error.                                                   *)
(***************************************************************************)
C14_DryRunRunsNothing == [][DryRunStep]_vars

\* C14 witness: a dry run has counted one would-be rename and one skip, and
\* the declaration it would rename is still in its file under its name.
C14_Witness ==
    /\ pc = "idle"
    /\ last = "Fix"
    /\ out.text = "Dry-run summary"
    /\ out.successful = 1
    /\ out.skipped = 1
    /\ Len(Result) = 2
    /\ \E i \in 1..Len(Result) :
           /\ HasPrivateName(Result[i])
           /\ \E k \in 1..Len(tree[Result[i].Pos.Filename].toks) :
                  /\ tree[Result[i].Pos.Filename].toks[k].line = Result[i].Pos.Line
                  /\ tree[Result[i].Pos.Filename].toks[k].name = Result[i].Name

\* What Fix does when exec.LookPath does not find gopls: it returns the
\* error; nothing is printed, no command is run, and the tree and Result are
\* as they were.
FailsForMissingTool ==
    /\ err' = "gopls not found. Install with: go install golang.org/x/tools/gopls@latest"
    /\ out' = NoOutput
    /\ UNCHANGED <<tree, Result>>

(***************************************************************************)
(* C15.  Whenever Fix can be called, a call that does not find gopls ends  *)
(* in the missing-tool error with no rename attempted, and in nothing      *)
(* else: in a dry run as well, and with an empty Result as well, the look  *)
(* for the tool being the first thing Fix does.                            *)
(***************************************************************************)
C15_ToolCheckedFirst ==
    pc = "idle" /\ fixes < MaxFixes =>
        \A dryRun \in BOOLEAN :
            /\ ENABLED (Fix(dryRun, FALSE, {}) /\ FailsForMissingTool)
            /\ ~ENABLED (Fix(dryRun, FALSE, {}) /\ ~FailsForMissingTool)

\* C15 witness: Fix was called with an empty Result and no gopls, and it
\* returned the missing-tool error, not the note that there is nothing to fix.
C15_Witness ==
    /\ pc = "idle"
    /\ last = "Fix"
    /\ Result = <<>>
    /\ err = "gopls not found. Install with: go install golang.org/x/tools/gopls@latest"
    /\ out = NoOutput

\* The same with two declarations in Result, left where the registry had
\* them: the tree still holds both under their exported names.
C15_WitnessNothingRenamed ==
    /\ pc = "idle"
    /\ last = "Fix"
    /\ Len(Result) = 2
    /\ err = "gopls not found. Install with: go install golang.org/x/tools/gopls@latest"
    /\ out.renames = <<>>
    /\ \A i \in 1..2 :
           \E k \in 1..Len(tree[Result[i].Pos.Filename].toks) :
               /\ tree[Result[i].Pos.Filename].toks[k].line = Result[i].Pos.Line
               /\ tree[Result[i].Pos.Filename].toks[k].name = Result[i].Name

(***************************************************************************)
(* C16.  As claimed: no entry of Declarations has its position in a file   *)
(* whose name ends in _test.go; such files add to the usage counts only.   *)
(* The first walk reads them as it reads any .go file and stores their     *)
(* exported declarations.                                                  *)
(***************************************************************************)
C16_NoDeclarationFromTestFile ==
    \A n \in DOMAIN Declarations :
        ~HasSuffix(Base(Declarations[n].Pos.Filename), "_test.go")

\* The files the first walk reads, and those of them it meets before f.
Phase1Files == {f \in FilePaths : Pass1Parses(f) /\ ~InSkippedDir(f)}

Phase1FilesBefore(f) == {g \in Phase1Files : WalkIndex(g) < WalkIndex(f)}

\* The exported top-level declarations of the files fs.
DeclaredIn(fs) ==
    {n \in IdentNames :
        /\ IsExported(n)
        /\ \E f \in fs : \E i \in 1..Len(tree[f].toks) :
               /\ tree[f].toks[i].name = n
               /\ tree[f].toks[i].kind \in {"func", "type", "value"}}

\* Declarations and UsageCount hold what the first walk gives for the files
\* fs, and nothing of the second walk.
HoldsPhase1Of(fs) ==
    /\ DOMAIN Declarations = DeclaredIn(fs)
    /\ \A n \in IdentNames : UsageCount[n] = SumOccurrences(fs, n)

(***************************************************************************)
(* C17.  In the first ParseFiles on a registry, when the second walk is    *)
(* about to read its first file the first walk is over for the whole tree: *)
(* every file it reads has parsed, every exported declaration of these     *)
(* files is in Declarations and every identifier of them is counted, and   *)
(* nothing else is.  When the first walk has failed, the second walk has   *)
(* not run: the counts are those of the files met before the failing one.  *)
(***************************************************************************)
C17_Phase1BeforePhase2 ==
    parses = 1 =>
        /\ pc = "pass2" =>
               /\ UnparsableIn("pass1") = {}
               /\ HoldsPhase1Of(Phase1Files)
        /\ pc = "idle" /\ Contains(err, "error walking project") =>
               /\ UnparsableIn("pass1") # {}
               /\ HoldsPhase1Of(Phase1FilesBefore(FirstOf(UnparsableIn("pass1"))))

\* C17 witness: between the two walks, Qux and Bar of p/a_test.go have been
\* counted once by the first walk and low of p/vendor/v_test.go not yet.
C17_Witness ==
    /\ parses = 1
    /\ pc = "pass2"
    /\ UsageCount[Qux] = 1
    /\ UsageCount[Bar] = 2
    /\ UsageCount[Low] = 0
    /\ Cardinality(DOMAIN Declarations) = 5

\* The first walk failed on p/a.go and the second has not counted Baz of
\* p/a_test.go nor low of p/vendor/v_test.go.
C17_WitnessFailure ==
    /\ parses = 1
    /\ pc = "idle"
    /\ Contains(err, "error walking project")
    /\ tree["p/a_test.go"].ok
    /\ tree["p/vendor/v_test.go"].ok
    /\ UsageCount[Baz] = 1
    /\ UsageCount[Low] = 0

\* Where the first walk meets an exported top-level declaration of n: the
\* file and the place in the file.  The last of them in the order of the walk.
DeclSites(n) ==
    UNION {{<<f, i>> : i \in {j \in 1..Len(tree[f].toks) :
                                 /\ tree[f].toks[j].name = n
                                 /\ tree[f].toks[j].kind \in
                                        {"func", "type", "value"}}} :
           f \in Phase1Files}

LastSite(n) ==
    CHOOSE s \in DeclSites(n) :
        \A t \in DeclSites(n) :
            \/ WalkIndex(t[1]) < WalkIndex(s[1])
            \/ t[1] = s[1] /\ t[2] <= s[2]

DeclAt(s) ==
    LET t == tree[s[1]].toks[s[2]]
    IN  makeDecl(t.name, Position(s[1], t.line, t.col),
                 Position(s[1], t.endLine, t.endCol))

(***************************************************************************)
(* C18.  After the first collection Declarations has one entry for each    *)
(* exported name declared at top level in the files of the first walk, and *)
(* the entry is the declaration of that name the walk visits last: its     *)
(* position and its line span, whatever other declarations share the name. *)
(***************************************************************************)
C18_LastWriterWins ==
    AfterFirstParse =>
        /\ DOMAIN Declarations = DeclaredIn(Phase1Files)
        /\ \A n \in DOMAIN Declarations : Declarations[n] = DeclAt(LastSite(n))

\* C18 witness: Foo is declared in p/a/b.go, visited first, and in p/a.go,
\* and Declarations keeps the one of p/a.go.
C18_Witness ==
    /\ AfterFirstParse
    /\ DeclSites(Foo) = {<<"p/a/b.go", 3>>, <<"p/a.go", 3>>}
    /\ Declarations[Foo].Pos = Position("p/a.go", 5, 5)
    /\ Declarations[Foo].LineCount = 1

\* What one collection over the tree adds to the count of n: the first walk
\* over its files, then the second walk over every _test.go file.
OneCollection(n) ==
    SumOccurrences(Phase1Files, n)
        + SumOccurrences({f \in FilePaths : Pass2Parses(f)}, n)

(***************************************************************************)
(* C19.  As claimed: when ParseFiles has returned nil for the second time  *)
(* on a registry whose tree nobody changed, Declarations and UsageCount    *)
(* are what they were after the first call, the counts being those of one  *)
(* collection.  ParseFiles adds to the counts it finds, so the second call *)
(* doubles them.                                                           *)
(***************************************************************************)
C19_CollectionIsIdempotent ==
    /\ pc = "idle"
    /\ last = "ParseFiles"
    /\ err = ""
    /\ parses = 2
    /\ fixes = 0
    => /\ \A n \in DOMAIN Declarations : Declarations[n] = DeclAt(LastSite(n))
       /\ \A n \in IdentNames : UsageCount[n] = OneCollection(n)

\* The names of the declarations in Result.
ResultNames == {Result[i].Name : i \in 1..Len(Result)}

(***************************************************************************)
(* C20.  After Run, no name that two or more exported top-level            *)
(* declarations of the scanned files carry is in Result: each declaring    *)
(* identifier has added one to the count of the name, which is then at     *)
(* least 2.  The names in Result are the names declared once, not ignored  *)
(* and counted at most once, which says nothing of the entry Declarations  *)
(* keeps for a name declared several times.                                *)
(***************************************************************************)
C20_CollidingNamesNeverReported ==
    AfterFirstRun =>
        /\ \A n \in IdentNames :
               Cardinality(DeclSites(n)) >= 2 =>
                   /\ UsageCount[n] >= Cardinality(DeclSites(n))
                   /\ n \notin ResultNames
        /\ ResultNames =
               {n \in DeclaredIn(Phase1Files) :
                   /\ Cardinality(DeclSites(n)) = 1
                   /\ n \notin Ignore
                   /\ UsageCount[n] <= 1}

\* C20 witness: Foo is declared in two files, is not ignored and is counted
\* twice; Run has reported other names and not Foo.
C20_Witness ==
    /\ AfterFirstRun
    /\ Cardinality(DeclSites(Foo)) = 2
    /\ Foo \in DOMAIN Declarations
    /\ Foo \notin Ignore
    /\ UsageCount[Foo] = 2
    /\ Len(Result) = 2
    /\ Foo \notin ResultNames

\* A Fix, dry run or not, has gone through a Result that is not empty.
AfterFixLoop ==
    /\ pc = "idle"
    /\ last = "Fix"
    /\ out.kind = "fix"
    /\ out.text \in {"Summary", "Dry-run summary"}

(***************************************************************************)
(* C21.  As claimed: toUnexported changes the name of every declaration    *)
(* the collection stores, so Fix never takes its skip branch: at the end   *)
(* of Fix skipped is 0 and successful + failed is the length of Result.    *)
(* toUnexported returns the exported name U+2102 x as it is, and Fix skips *)
(* the declaration.                                                        *)
(***************************************************************************)
C21_SkipNeverTaken ==
    /\ \A n \in DOMAIN Declarations : toUnexported(n) # n
    /\ AfterFixLoop =>
           /\ out.skipped = 0
           /\ out.successful + out.failed = Len(Result)

\* Fix went through a Result holding the name U+2102 x, which is exported and
\* which toUnexported returns unchanged, and skipped it.
C21_WitnessSkip ==
    /\ AfterFixLoop
    /\ \E i \in 1..Len(Result) :
           /\ Result[i].Name = Cx
           /\ IsExported(Cx)
           /\ toUnexported(Cx) = Cx
    /\ out.skipped = 1

====
